---- MODULE Spec2Model ----
(***************************************************************************)
(* Model of zkps.py: non-interactive zero-knowledge proofs over ElGamal    *)
(* ciphertexts in Schnorr groups.  Every prove/verify function is an       *)
(* operator computed as the code computes it; the random nonces and the    *)
(* SHA-256 digests are inputs chosen by the actions.  SHA-256 is modelled  *)
(* as a lazily sampled function of the byte string that is fed to it: the  *)
(* same string always gets the same digest, a new string gets any digest.  *)
(***************************************************************************)
EXTENDS Integers, Sequences, FiniteSets, TLC

VARIABLES
    pc,      \* "start", "proved", "raised" (the prover raised) or "verified"
    call,    \* the prover's call: function and arguments, secrets included
    rnd,     \* what the prover drew: its nonces and the digest it got
    proof,   \* the transcript the prover returned
    oracle,  \* the SHA-256 queries answered so far: <<bytes, digest>>
    vcall,   \* what the verifier was called with, and the digest it got
    ret,     \* what the verifier returned (FALSE before it has)
    raised   \* the exception the prover or the verifier raised, "" if none

vars == <<pc, call, rnd, proof, oracle, vcall, ret, raised>>

(***************************************************************************)
(* Bounds of the model.                                                    *)
(***************************************************************************)
NumGroups == 2      \* how many of the toy Schnorr groups are used
MaxExp == 2         \* secrets (keys' and ciphertexts' exponents) are 0..MaxExp
MaxNonce == 2       \* nonces and simulated values are 0..MaxNonce
MaxDigest == 2      \* SHA-256 digests, as integers, are 0..MaxDigest

Min(a, b) == IF a < b THEN a ELSE b

(***************************************************************************)
(* integer.SchnorrGroup: modulus p, prime order q, generator g.            *)
(***************************************************************************)
SchnorrGroups ==
    << [p |-> 7, q |-> 3, g |-> 2],
       [p |-> 11, q |-> 5, g |-> 3],
       [p |-> 23, q |-> 11, g |-> 4] >>

Groups == { SchnorrGroups[i] : i \in 1 .. Min(NumGroups, Len(SchnorrGroups)) }

order(G) == G.q

RECURSIVE PowNat(_, _, _)
PowNat(b, e, n) == IF e = 0 THEN 1 % n ELSE (b * PowNat(b, e - 1, n)) % n

Inverse(b, n) == CHOOSE z \in 0 .. n - 1 : (b * z) % n = 1 % n

\* SchnorrGroup.powmod(b, e) = b^e mod p; a negative exponent inverts b first
powmod(G, b, e) ==
    IF e < 0 THEN PowNat(Inverse(b % G.p, G.p), 0 - e, G.p)
             ELSE PowNat(b % G.p, e, G.p)

is_element(G, x) == x > 0 /\ x < G.p /\ powmod(G, x, G.q) = 1

\* random_integer(0, n): any integer of [0, n); the model draws up to a cap
random_integer(n, cap) == 0 .. Min(n - 1, cap)

Elements(G) == { powmod(G, G.g, e) : e \in random_integer(order(G), MaxExp) }

(***************************************************************************)
(* elgamal: key pair (g, y = g^x) and ciphertext (a, b) = (g^r, y^r * m).  *)
(***************************************************************************)
ElGamalKeypair(G, x) == [G_q |-> G, g |-> G.g, y |-> powmod(G, G.g, x)]

ElGamalCiphertext(key, m, r) ==
    [G_q |-> key.G_q,
     a |-> powmod(key.G_q, key.g, r),
     b |-> (powmod(key.G_q, key.y, r) * m) % key.G_q.p]

(***************************************************************************)
(* The hash primitives.                                                    *)
(***************************************************************************)
RECURSIVE digits(_)
digits(v) == IF v < 10 THEN <<v>> ELSE digits(v \div 10) \o <<v % 10>>

\* the bytes SHA-256 is updated with: the decimal digits of each value,
\* concatenated without separators
RECURSIVE hash_update(_)
hash_update(values) ==
    IF values = <<>> THEN <<>>
    ELSE digits(Head(values)) \o hash_update(Tail(values))

\* the digest d may answer the query for these bytes
Sha256(bytes, d) == \A e \in oracle : e[1] = bytes => e[2] = d

hashfunc(G_q, digest) == digest % order(G_q)

Digests == 0 .. MaxDigest

(***************************************************************************)
(* Chaum-Pedersen proof of equal discrete logarithms.                      *)
(***************************************************************************)
dleq_commit(G_q, g_1, g_2, w) == <<powmod(G_q, g_1, w), powmod(G_q, g_2, w)>>

dleq_hash_input(h_1, h_2, t_1, t_2) == hash_update(<<h_1, h_2, t_1, t_2>>)

proof_dleq_plus(G_q, g_1, h_1, g_2, h_2, alpha, w, digest) ==
    LET t == dleq_commit(G_q, g_1, g_2, w)
        c == hashfunc(G_q, digest)
        res == (w + alpha * c) % G_q.q
    IN  <<t[1], t[2], res>>

proof_dleq(G_q, g_1, h_1, g_2, h_2, alpha, w, digest) ==
    LET t == dleq_commit(G_q, g_1, g_2, w)
        c == hashfunc(G_q, digest)
        res == (w - alpha * c) % G_q.q
    IN  <<t[1], t[2], res>>

verify_dleq_first_only(G_q, prf, g_1, h_1, g_2, h_2, digest) ==
    LET t_1 == prf[1]
        res == prf[3]
        c == hashfunc(G_q, digest)
    IN  t_1 = (powmod(G_q, g_1, res) * powmod(G_q, h_1, c)) % G_q.p

verify_dleq(G_q, prf, g_1, h_1, g_2, h_2, digest) ==
    LET t_1 == prf[1]
        t_2 == prf[2]
        res == prf[3]
        c == hashfunc(G_q, digest)
        b_1 == t_1 = (powmod(G_q, g_1, res) * powmod(G_q, h_1, c)) % G_q.p
        b_2 == t_2 = (powmod(G_q, g_2, res) * powmod(G_q, h_2, c)) % G_q.p
    IN  b_1 /\ b_2

(***************************************************************************)
(* Correct decryption and plaintext equality: reductions to DLEQ.  Each    *)
(* returns the arguments it hands to proof_dleq / verify_dleq.             *)
(***************************************************************************)
correct_decryption_args(key, c, m) ==
    [G_q |-> c.G_q, g_1 |-> key.g, h_1 |-> c.a, g_2 |-> key.y,
     h_2 |-> (c.b * powmod(c.G_q, m, -1)) % c.G_q.p]

plaintext_equality_args(key, c, c_prime) ==
    [G_q |-> c.G_q, g_1 |-> key.g,
     h_1 |-> (c_prime.a * powmod(c.G_q, c.a, -1)) % c.G_q.p,
     g_2 |-> key.y,
     h_2 |-> (c_prime.b * powmod(c.G_q, c.b, -1)) % c.G_q.p]

plaintext_equality_r_hat(key, r, r_prime) == (r_prime - r) % order(key.G_q)

(***************************************************************************)
(* The calls of the DLEQ family.                                           *)
(***************************************************************************)
Secrets(G) == random_integer(order(G), MaxExp)

DleqCalls ==
    UNION { { [fn |-> "dleq", G_q |-> G, g_1 |-> g1, g_2 |-> g2, alpha |-> al,
               h_1 |-> powmod(G, g1, al), h_2 |-> powmod(G, g2, al)] :
                 g1 \in Elements(G), g2 \in Elements(G), al \in Secrets(G) } :
            G \in Groups }

\* keys have a secret exponent x >= 1
Keys == UNION { { ElGamalKeypair(G, x) : x \in Secrets(G) \ {0} } : G \in Groups }

DecryptionCalls ==
    UNION { { [fn |-> "correct_decryption", key |-> key, m |-> m, r |-> r,
               c |-> ElGamalCiphertext(key, m, r)] :
                 m \in Elements(key.G_q), r \in Secrets(key.G_q) } :
            key \in Keys }

EqualityCalls ==
    UNION { { [fn |-> "plaintext_equality", key |-> key, m |-> m,
               r |-> r, c |-> ElGamalCiphertext(key, m, r),
               r_prime |-> rp, c_prime |-> ElGamalCiphertext(key, m, rp)] :
                 m \in Elements(key.G_q), r \in Secrets(key.G_q),
                 rp \in Secrets(key.G_q) } :
            key \in Keys }

InitDleq ==
    /\ pc = "start"
    /\ call \in DleqCalls \cup DecryptionCalls \cup EqualityCalls
    /\ rnd = <<>>
    /\ proof = <<>>
    /\ oracle = {}
    /\ vcall = <<>>
    /\ ret = FALSE
    /\ raised = ""

\* proof_dleq run on the arguments a, with the secret alpha
RunProofDleq(a, alpha) ==
    \E w \in random_integer(order(a.G_q), MaxNonce), d \in Digests :
        LET t == dleq_commit(a.G_q, a.g_1, a.g_2, w)
            bytes == dleq_hash_input(a.h_1, a.h_2, t[1], t[2])
        IN  /\ Sha256(bytes, d)
            /\ oracle' = oracle \cup {<<bytes, d>>}
            /\ rnd' = [w |-> w, digest |-> d]
            /\ proof' = proof_dleq(a.G_q, a.g_1, a.h_1, a.g_2, a.h_2, alpha, w, d)
            /\ pc' = "proved"
            /\ UNCHANGED <<call, vcall, ret, raised>>

\* verify_dleq run on the arguments a; m is the verifier's own input
RunVerifyDleq(a, m) ==
    \E d \in Digests :
        LET bytes == dleq_hash_input(a.h_1, a.h_2, proof[1], proof[2])
        IN  /\ Sha256(bytes, d)
            /\ oracle' = oracle \cup {<<bytes, d>>}
            /\ ret' = verify_dleq(a.G_q, proof, a.g_1, a.h_1, a.g_2, a.h_2, d)
            /\ vcall' = [m |-> m, digest |-> d]
            /\ pc' = "verified"
            /\ UNCHANGED <<call, rnd, proof, raised>>

Call_proof_dleq ==
    /\ pc = "start" /\ call.fn = "dleq"
    /\ RunProofDleq(call, call.alpha)

Call_verify_dleq ==
    /\ pc = "proved" /\ call.fn = "dleq"
    /\ RunVerifyDleq(call, 0)

Call_proof_correct_decryption ==
    /\ pc = "start" /\ call.fn = "correct_decryption"
    /\ RunProofDleq(correct_decryption_args(call.key, call.c, call.m), call.r)

\* the verifier is given any claimed plaintext m
Call_verify_correct_decryption ==
    /\ pc = "proved" /\ call.fn = "correct_decryption"
    /\ \E m \in Elements(call.key.G_q) :
          RunVerifyDleq(correct_decryption_args(call.key, call.c, m), m)

Call_proof_plaintext_equality ==
    /\ pc = "start" /\ call.fn = "plaintext_equality"
    /\ RunProofDleq(plaintext_equality_args(call.key, call.c, call.c_prime),
                    plaintext_equality_r_hat(call.key, call.r, call.r_prime))

Call_verify_plaintext_equality ==
    /\ pc = "proved" /\ call.fn = "plaintext_equality"
    /\ RunVerifyDleq(plaintext_equality_args(call.key, call.c, call.c_prime), 0)

NextDleq ==
    \/ Call_proof_dleq
    \/ Call_verify_dleq
    \/ Call_proof_correct_decryption
    \/ Call_verify_correct_decryption
    \/ Call_proof_plaintext_equality
    \/ Call_verify_plaintext_equality

SpecDleq == InitDleq /\ [][NextDleq]_vars

(***************************************************************************)
(* C1: DLEQ completeness.  Whatever nonce the prover drew and whatever     *)
(* digest SHA-256 gave, verify_dleq accepts the transcript of proof_dleq   *)
(* for h1 = g1^alpha, h2 = g2^alpha; verify_correct_decryption accepts the *)
(* transcript of proof_correct_decryption when it is given the plaintext   *)
(* m that was encrypted; verify_plaintext_equality accepts the transcript  *)
(* for two ciphertexts of the same message.                                *)
(***************************************************************************)
HonestVerification ==
    /\ pc = "verified"
    /\ call.fn = "correct_decryption" => vcall.m = call.m

DleqCompleteness == HonestVerification => ret = TRUE

DleqCompletenessWitness ==
    /\ pc = "verified"
    /\ call.fn = "plaintext_equality" /\ call.r # call.r_prime
    /\ hashfunc(call.key.G_q, rnd.digest) > 0 /\ proof[3] # rnd.w
    /\ ret = TRUE

(***************************************************************************)
(* C5: a proof of correct decryption verified against another plaintext.   *)
(* As stated (rejected for every m' # m, every nonce and every challenge): *)
(***************************************************************************)
WrongPlaintext ==
    /\ pc = "verified" /\ call.fn = "correct_decryption" /\ vcall.m # call.m

WrongPlaintextRejected == WrongPlaintext => ret = FALSE

(***************************************************************************)
(* C5 as amended: the transcript is accepted for m' # m exactly when the   *)
(* verifier's challenge (the hash of a, b/m', t1, t2) is 0 and r times the *)
(* prover's challenge is 0 modulo q; it is rejected in every other case,   *)
(* in particular whenever the verifier's challenge is not 0.               *)
(***************************************************************************)
WrongPlaintextAccepted ==
    LET q == order(call.key.G_q)
    IN  /\ hashfunc(call.key.G_q, vcall.digest) = 0
        /\ (call.r * hashfunc(call.key.G_q, rnd.digest)) % q = 0

WrongPlaintextRejectedUnlessZero ==
    WrongPlaintext => (ret = TRUE <=> WrongPlaintextAccepted)

WrongPlaintextWitness ==
    /\ WrongPlaintext
    /\ hashfunc(call.key.G_q, vcall.digest) # 0
    /\ hashfunc(call.key.G_q, vcall.digest) = hashfunc(call.key.G_q, rnd.digest)
    /\ ret = FALSE

(***************************************************************************)
(* Disjunctive plaintext equality (1-of-n OR proof).  Python lists are     *)
(* sequences: the list index i is position i + 1, and a negative index j   *)
(* of a list of length n is the index n + j.                               *)
(***************************************************************************)
MaxAlt == 2         \* at most MaxAlt alternatives

RECURSIVE sum(_)
sum(xs) == IF xs = <<>> THEN 0 ELSE Head(xs) + sum(Tail(xs))

\* lst[j] of a Python list of length n raises IndexError
IndexError_off_by_one(n, j) == j > n \/ j < 0 - n

IndexError(n, j) == j >= n \/ j < 0 - n

\* the position lst[j] reads or writes
list_index(n, j) == IF j >= 0 THEN j + 1 ELSE n + j + 1

\* lines 181-182: the commitment forged from a response and a challenge
or_simulate(key, c, c_prime_i, res_i, challenge_i) ==
    LET G_q == key.G_q
        a_inv == powmod(G_q, c.a, -1)
        b_inv == powmod(G_q, c.b, -1)
        t1 == (powmod(G_q, key.g, res_i)
                 * powmod(G_q, c_prime_i.a * a_inv, challenge_i)) % G_q.p
        t2 == (powmod(G_q, key.y, res_i)
                 * powmod(G_q, c_prime_i.b * b_inv, challenge_i)) % G_q.p
    IN  <<t1, t2>>

\* lines 162-183: the commitments.  The loop forges every index i # j, so a
\* negative j has its real commitment overwritten by a forged one.
or_commitments(key, c, c_prime, j, w_j, sim_res, sim_ch) ==
    [k \in 1 .. Len(c_prime) |->
        IF k - 1 # j
        THEN or_simulate(key, c, c_prime[k], sim_res[k], sim_ch[k])
        ELSE <<powmod(key.G_q, key.g, w_j), powmod(key.G_q, key.y, w_j)>>]

\* lines 186-190 and 216-220: what the master challenge is the hash of
or_hash_input(c, c_prime, t) ==
    hash_update(<<c.a>> \o [k \in 1 .. Len(c_prime) |-> c_prime[k].a]
                \o <<c.b>> \o [k \in 1 .. Len(c_prime) |-> c_prime[k].b]
                \o [k \in 1 .. Len(t) |-> t[k][1]]
                \o [k \in 1 .. Len(t) |-> t[k][2]])

\* line 194, with the sum of the challenges of the indices i # j
or_real_challenge(G_q, challenge, others) == (challenge - others) % G_q.p

\* line 196
or_real_response_plus(G_q, w_j, r, r_j, challenge_j) ==
    (w_j + (r_j - r) * challenge_j) % order(G_q)

or_real_response(G_q, w_j, r, r_j, challenge_j) ==
    (w_j - (r_j - r) * challenge_j) % order(G_q)

\* lines 159-198, for an index j that does not raise IndexError
proof_plaintext_equality_or(key, c, r, c_prime, j, r_j, w_j, sim_res, sim_ch, digest) ==
    LET G_q == key.G_q
        n == Len(c_prime)
        jj == list_index(n, j)
        t == or_commitments(key, c, c_prime, j, w_j, sim_res, sim_ch)
        challenge == hashfunc(G_q, digest)
        others == sum([k \in 1 .. n |-> IF k - 1 # j THEN sim_ch[k] ELSE 0])
        challenge_j == or_real_challenge(G_q, challenge, others)
        res_j == or_real_response(G_q, w_j, r, r_j, challenge_j)
    IN  [t |-> t,
         res |-> [k \in 1 .. n |-> IF k = jj THEN res_j ELSE sim_res[k]],
         challenges |-> [k \in 1 .. n |-> IF k = jj THEN challenge_j ELSE sim_ch[k]]]

\* line 214
or_well_formed(prf, c_prime) ==
    /\ Len(prf.challenges) = Len(prf.res)
    /\ Len(prf.res) = Len(prf.t)
    /\ Len(prf.t) = Len(c_prime)

\* line 222
or_sum_check(G_q, challenge, challenges) == challenge = sum(challenges) % G_q.p

\* lines 230-233
or_equations_first_only(prf, key, c, c_prime) ==
    \A k \in 1 .. Len(c_prime) :
        or_simulate(key, c, c_prime[k], prf.res[k], prf.challenges[k])[1] = prf.t[k][1]

or_equations(prf, key, c, c_prime) ==
    \A k \in 1 .. Len(c_prime) :
        or_simulate(key, c, c_prime[k], prf.res[k], prf.challenges[k]) = prf.t[k]

\* lines 215-234, for a transcript that passes the assert of line 214
verify_plaintext_equality_or(prf, key, c, c_prime, digest) ==
    /\ or_sum_check(key.G_q, hashfunc(key.G_q, digest), prf.challenges)
    /\ or_equations(prf, key, c, c_prime)

(***************************************************************************)
(* The calls of the OR proof: a ciphertext c of m, n alternatives (each    *)
(* the encryption of some m_i with some r_i), any r_j and an index j that  *)
(* is in range, or -1, or just out of range on either side.                *)
(***************************************************************************)
\* The calls are made in the first toy group, with the key of secret 2; the
\* randomness of a ciphertext is 1 or 2, a plaintext is 1 or g, a nonce or
\* a simulated value is 0 or 1, and the master challenge is any of [0, q).
OrSecrets(G) == {1, 2}

OrElements(G) == {1, G.g}

OrNonces(G) == {0, 1}

OrDigests(G) == 0 .. order(G) - 1

OrKeys == { ElGamalKeypair(SchnorrGroups[1], 2) }

Plaintexts(key, n) ==
    [1 .. n -> [m : OrElements(key.G_q), r : OrSecrets(key.G_q)]]

OrCalls ==
    UNION { UNION { { [fn |-> "plaintext_equality_or", key |-> key, m |-> m, r |-> r,
                       c |-> ElGamalCiphertext(key, m, r),
                       alt |-> alt,
                       c_prime |-> [k \in 1 .. n |->
                                      ElGamalCiphertext(key, alt[k].m, alt[k].r)],
                       j |-> j, r_j |-> rj] :
                        m \in OrElements(key.G_q), r \in OrSecrets(key.G_q),
                        alt \in Plaintexts(key, n),
                        j \in {0 - n - 1} \cup ((-1) .. n),
                        rj \in OrSecrets(key.G_q) } :
                    n \in 1 .. MaxAlt } :
            key \in OrKeys }

InitOr ==
    /\ pc = "start"
    /\ call \in OrCalls
    /\ rnd = <<>>
    /\ proof = <<>>
    /\ oracle = {}
    /\ vcall = <<>>
    /\ ret = FALSE
    /\ raised = ""

\* the values the prover draws for the indices it forges; 0 stands for "none"
Simulated(G, n, j) ==
    { s \in [1 .. n -> OrNonces(G)] :
         \A k \in 1 .. n : k - 1 = j => s[k] = 0 }

\* line 169 raises IndexError for an index outside [-n, n)
Call_proof_plaintext_equality_or_raises ==
    /\ pc = "start"
    /\ IndexError(Len(call.c_prime), call.j)
    /\ pc' = "raised"
    /\ raised' = "IndexError"
    /\ UNCHANGED <<call, rnd, proof, oracle, vcall, ret>>

Call_proof_plaintext_equality_or ==
    /\ pc = "start"
    /\ ~ IndexError(Len(call.c_prime), call.j)
    /\ LET G == call.key.G_q
           n == Len(call.c_prime)
       IN  \E w_j \in OrNonces(G),
              sim_res \in Simulated(G, n, call.j),
              sim_ch \in Simulated(G, n, call.j),
              d \in OrDigests(G) :
             LET t == or_commitments(call.key, call.c, call.c_prime, call.j,
                                     w_j, sim_res, sim_ch)
                 bytes == or_hash_input(call.c, call.c_prime, t)
             IN  /\ Sha256(bytes, d)
                 /\ oracle' = oracle \cup {<<bytes, d>>}
                 /\ rnd' = [w_j |-> w_j, sim_ch |-> sim_ch, digest |-> d]
                 /\ proof' = proof_plaintext_equality_or(call.key, call.c, call.r,
                                 call.c_prime, call.j, call.r_j, w_j, sim_res, sim_ch, d)
                 /\ pc' = "proved"
                 /\ UNCHANGED <<call, vcall, ret, raised>>

\* verify_plaintext_equality_or run on a transcript and a list of alternatives;
\* the assert of line 214 raises AssertionError before anything is hashed
RunVerifyOr(prf, c_prime) ==
    IF ~ or_well_formed(prf, c_prime)
    THEN /\ raised' = "AssertionError"
         /\ vcall' = [proof |-> prf, c_prime |-> c_prime]
         /\ pc' = "verified"
         /\ UNCHANGED <<call, rnd, proof, oracle, ret>>
    ELSE \E d \in OrDigests(call.key.G_q) :
           LET bytes == or_hash_input(call.c, c_prime, prf.t)
           IN  /\ Sha256(bytes, d)
               /\ oracle' = oracle \cup {<<bytes, d>>}
               /\ ret' = verify_plaintext_equality_or(prf, call.key, call.c, c_prime, d)
               /\ vcall' = [proof |-> prf, c_prime |-> c_prime, digest |-> d]
               /\ pc' = "verified"
               /\ UNCHANGED <<call, rnd, proof, raised>>

Call_verify_plaintext_equality_or ==
    /\ pc = "proved"
    /\ RunVerifyOr(proof, call.c_prime)

DropLast(xs) == SubSeq(xs, 1, Len(xs) - 1)

\* the verifier is given the transcript with its list of responses cut
\* short, or the transcript and a list of alternatives cut short
Malformed ==
    { [proof |-> [proof EXCEPT !.res = DropLast(@)], c_prime |-> call.c_prime],
      [proof |-> proof, c_prime |-> DropLast(call.c_prime)] }

Call_verify_plaintext_equality_or_malformed ==
    /\ pc = "proved"
    /\ \E v \in Malformed : RunVerifyOr(v.proof, v.c_prime)

NextOr ==
    \/ Call_proof_plaintext_equality_or_raises
    \/ Call_proof_plaintext_equality_or
    \/ Call_verify_plaintext_equality_or
    \/ Call_verify_plaintext_equality_or_malformed

SpecOr == InitOr /\ [][NextOr]_vars

(***************************************************************************)
(* The cases the claims about the OR proof speak of.                       *)
(***************************************************************************)
OrN == Len(call.c_prime)

OrQ == order(call.key.G_q)

InRange == call.j \in 0 .. OrN - 1

\* alternative j encrypts the plaintext of c and r_j is its randomness
HonestOrCall ==
    /\ InRange
    /\ call.alt[call.j + 1].m = call.m
    /\ call.alt[call.j + 1].r = call.r_j

NoneMatches == \A k \in 1 .. OrN : call.alt[k].m # call.m

\* the verifier got the transcript as the prover returned it
VerifiedAsReturned ==
    /\ pc = "verified"
    /\ vcall.proof = proof /\ vcall.c_prime = call.c_prime

OrMaster == hashfunc(call.key.G_q, rnd.digest)

(***************************************************************************)
(* C2: OR-proof completeness.  For every n >= 1, every true index j with   *)
(* its randomness r_j, every nonce, every simulated response and challenge *)
(* and every digest, verify_plaintext_equality_or accepts the transcript   *)
(* of proof_plaintext_equality_or.                                         *)
(***************************************************************************)
OrCompleteness == (VerifiedAsReturned /\ HonestOrCall) => ret = TRUE

\* ... reached with two alternatives and a real challenge that is not below q
OrCompletenessWitness ==
    /\ VerifiedAsReturned /\ HonestOrCall /\ OrN = 2
    /\ call.r_j # call.r
    /\ proof.challenges[call.j + 1] >= OrQ
    /\ ret = TRUE

(***************************************************************************)
(* C6: no alternative is plaintext-equal to c.  As stated (every           *)
(* transcript the prover returns for an index j of [0,n) is rejected):     *)
(***************************************************************************)
NoMatchRejected ==
    (VerifiedAsReturned /\ InRange /\ NoneMatches) => ret = FALSE

(***************************************************************************)
(* C6 as amended: when no alternative is plaintext-equal to c, the         *)
(* transcript returned for an index j of [0,n) is rejected exactly when    *)
(* the challenge the prover derived for j is not a multiple of q; when it  *)
(* is a multiple of q (the master challenge equals the sum of the          *)
(* simulated challenges) the transcript is accepted.                       *)
(***************************************************************************)
NoMatchRejectedUnlessZero ==
    (VerifiedAsReturned /\ InRange /\ NoneMatches)
        => (ret = TRUE <=> proof.challenges[call.j + 1] % OrQ = 0)

NoMatchWitness ==
    /\ VerifiedAsReturned /\ InRange /\ NoneMatches /\ OrN = 2
    /\ call.r_j = call.alt[call.j + 1].r
    /\ proof.challenges[call.j + 1] % OrQ # 0
    /\ ret = FALSE

(***************************************************************************)
(* C7: the binding constraint is modulo the group order q.  As stated: the *)
(* verifier accepts a well-formed transcript iff the sub-challenges sum to *)
(* the master challenge modulo q and every pair of equations holds; the    *)
(* prover sets challenge_j = (master - sum of the others) mod q; every     *)
(* transcript it returns has sub-challenges summing to the master          *)
(* challenge modulo q.                                                     *)
(***************************************************************************)
OrOthers == sum([k \in 1 .. OrN |-> IF k - 1 # call.j THEN rnd.sim_ch[k] ELSE 0])

BindingModuloQ ==
    /\ (pc = "proved" /\ InRange) =>
          /\ proof.challenges[call.j + 1] = (OrMaster - OrOthers) % OrQ
          /\ sum(proof.challenges) % OrQ = OrMaster
    /\ (pc = "verified" /\ or_well_formed(vcall.proof, vcall.c_prime)) =>
          (ret = TRUE <=>
              /\ sum(vcall.proof.challenges) % OrQ
                    = hashfunc(call.key.G_q, vcall.digest)
              /\ or_equations(vcall.proof, call.key, call.c, vcall.c_prime))

(***************************************************************************)
(* C8: a structural mismatch is a rejection.  As stated: given lists of    *)
(* different lengths, verify_plaintext_equality_or returns false and does  *)
(* not raise.                                                              *)
(***************************************************************************)
StructuralMismatchRejected ==
    (pc = "verified" /\ ~ or_well_formed(vcall.proof, vcall.c_prime))
        => (raised = "" /\ ret = FALSE)

(***************************************************************************)
(* C9: the prover's tolerance of a bad index.  As stated: called with j    *)
(* outside [0,n), or with an r_j that does not match alternative j, the    *)
(* prover does not crash, returns a transcript of the usual shape, and the *)
(* verifier rejects that transcript.                                       *)
(***************************************************************************)
BadOrCall ==
    \/ ~ InRange
    \/ call.alt[call.j + 1].r # call.r_j

UsualShape ==
    Len(proof.t) = OrN /\ Len(proof.res) = OrN /\ Len(proof.challenges) = OrN

BadCallTolerated ==
    BadOrCall =>
        /\ raised # "IndexError"
        /\ pc = "proved" => UsualShape
        /\ VerifiedAsReturned => ret = FALSE

(***************************************************************************)
(* C9 as amended: with j >= n or j < -n the prover raises IndexError and   *)
(* returns nothing.  With j in [-n, n) it returns a transcript of the      *)
(* usual shape.  With j in [0,n) and an r_j that does not match            *)
(* alternative j, the verifier rejects the transcript exactly when the     *)
(* challenge derived for j is not a multiple of q.  With j in [-n, -1]     *)
(* (Python's index n + j) the verifier rejects the transcript whenever the *)
(* challenge the prover simulated for the index n + j is not 0.            *)
(***************************************************************************)
BadCallOutcome ==
    BadOrCall =>
        /\ (pc # "start" /\ (call.j >= OrN \/ call.j < 0 - OrN))
              => (raised = "IndexError" /\ proof = <<>>)
        /\ (pc # "start" /\ call.j < OrN /\ call.j >= 0 - OrN)
              => (raised # "IndexError" /\ UsualShape)
        /\ (VerifiedAsReturned /\ InRange)
              => (ret = TRUE <=> proof.challenges[call.j + 1] % OrQ = 0)
        /\ (VerifiedAsReturned /\ call.j < 0 /\ ret = TRUE)
              => rnd.sim_ch[OrN + call.j + 1] = 0

\* ... reached by a negative index whose transcript is rejected
BadCallWitness ==
    /\ VerifiedAsReturned /\ call.j = -1 /\ OrN = 2
    /\ rnd.sim_ch[OrN] # 0
    /\ ret = FALSE

(***************************************************************************)
(* Proof of knowledge of the discrete logarithm of a plaintext.            *)
(***************************************************************************)
dlog_commit(key, h, w_1, w_2) ==
    LET G_q == key.G_q
    IN  <<(powmod(G_q, h, w_1) * powmod(G_q, key.y, w_2)) % G_q.p,
          powmod(G_q, key.g, w_2)>>

dlog_hash_input(key, c, h, t_1, t_2) ==
    hash_update(<<key.g, h, key.y, t_1, t_2, c.a, c.b>>)

proof_plaintext_dlog_res2_from_x(key, c, h, x, r, w_1, w_2, digest) ==
    LET G_q == key.G_q
        t == dlog_commit(key, h, w_1, w_2)
        challenge == hashfunc(G_q, digest)
        res1 == (w_1 + challenge * x) % order(G_q)
        res2 == (w_2 + challenge * x) % order(G_q)
    IN  <<t[1], t[2], res1, res2>>

proof_plaintext_dlog(key, c, h, x, r, w_1, w_2, digest) ==
    LET G_q == key.G_q
        t == dlog_commit(key, h, w_1, w_2)
        challenge == hashfunc(G_q, digest)
        res1 == (w_1 + challenge * x) % order(G_q)
        res2 == (w_2 + challenge * r) % order(G_q)
    IN  <<t[1], t[2], res1, res2>>

verify_plaintext_dlog(prf, key, c, h, digest) ==
    LET G_q == key.G_q
        t_1 == prf[1]
        t_2 == prf[2]
        res1 == prf[3]
        res2 == prf[4]
        challenge == hashfunc(G_q, digest)
        b1 == (powmod(G_q, h, res1) * powmod(G_q, key.y, res2)) % G_q.p
                 = (t_1 * powmod(G_q, c.b, challenge)) % G_q.p
        b2 == powmod(G_q, key.g, res2)
                 = (t_2 * powmod(G_q, c.a, challenge)) % G_q.p
    IN  b1 /\ b2

\* the ciphertext encrypts h^x with the randomness r
DlogCalls ==
    UNION { { [fn |-> "plaintext_dlog", key |-> key, h |-> h, x |-> x, r |-> r,
               c |-> ElGamalCiphertext(key, powmod(key.G_q, h, x), r)] :
                 h \in Elements(key.G_q), x \in Secrets(key.G_q),
                 r \in Secrets(key.G_q) } :
            key \in Keys }

InitDlog ==
    /\ pc = "start"
    /\ call \in DlogCalls
    /\ rnd = <<>>
    /\ proof = <<>>
    /\ oracle = {}
    /\ vcall = <<>>
    /\ ret = FALSE
    /\ raised = ""

Call_proof_plaintext_dlog ==
    /\ pc = "start"
    /\ \E w_1 \in random_integer(order(call.key.G_q), MaxNonce),
          w_2 \in random_integer(order(call.key.G_q), MaxNonce),
          d \in Digests :
         LET t == dlog_commit(call.key, call.h, w_1, w_2)
             bytes == dlog_hash_input(call.key, call.c, call.h, t[1], t[2])
         IN  /\ Sha256(bytes, d)
             /\ oracle' = oracle \cup {<<bytes, d>>}
             /\ rnd' = [w_1 |-> w_1, w_2 |-> w_2, digest |-> d]
             /\ proof' = proof_plaintext_dlog(call.key, call.c, call.h, call.x,
                                              call.r, w_1, w_2, d)
             /\ pc' = "proved"
             /\ UNCHANGED <<call, vcall, ret, raised>>

Call_verify_plaintext_dlog ==
    /\ pc = "proved"
    /\ \E d \in Digests :
         LET bytes == dlog_hash_input(call.key, call.c, call.h, proof[1], proof[2])
         IN  /\ Sha256(bytes, d)
             /\ oracle' = oracle \cup {<<bytes, d>>}
             /\ ret' = verify_plaintext_dlog(proof, call.key, call.c, call.h, d)
             /\ vcall' = [digest |-> d]
             /\ pc' = "verified"
             /\ UNCHANGED <<call, rnd, proof, raised>>

NextDlog ==
    \/ Call_proof_plaintext_dlog
    \/ Call_verify_plaintext_dlog

SpecDlog == InitDlog /\ [][NextDlog]_vars

(***************************************************************************)
(* C4: plaintext-discrete-log completeness.  For every key, base h,        *)
(* exponent x, randomness r and ciphertext (g^r, y^r * h^x), every pair of *)
(* nonces and every digest, verify_plaintext_dlog accepts the transcript   *)
(* of proof_plaintext_dlog.                                                *)
(***************************************************************************)
DlogCompleteness == pc = "verified" => ret = TRUE

DlogCompletenessWitness ==
    /\ pc = "verified"
    /\ call.x # call.r /\ call.h # 1
    /\ hashfunc(call.key.G_q, rnd.digest) > 0
    /\ rnd.w_1 # rnd.w_2
    /\ ret = TRUE

(***************************************************************************)
(* Discrete logarithm equals double discrete logarithm.  G_q is the outer  *)
(* group and G_r the inner one, whose modulus is the order of G_q.         *)
(***************************************************************************)
bits == 2           \* the rounds of the proof (256 in the code)

NestedGroups ==
    { [G_q |-> [p |-> 7, q |-> 3, g |-> 2], G_r |-> [p |-> 3, q |-> 2, g |-> 2]],
      [G_q |-> [p |-> 23, q |-> 11, g |-> 4], G_r |-> [p |-> 11, q |-> 5, g |-> 3]] }

RECURSIVE Pow2(_)
Pow2(k) == IF k = 0 THEN 1 ELSE 2 * Pow2(k - 1)

\* the digest taken bit by bit, least significant bit first
hashfunc_bits(digest) == [i \in 1 .. bits |-> (digest \div Pow2(i - 1)) % 2]

BitDigests == 0 .. Pow2(bits) - 1

\* lines 315-322 and 362-369
ddl_asserts(G_q, G_r, g, h, y, A, B) ==
    /\ G_q.p = G_r.p * 2 + 1
    /\ is_element(G_q, g)
    /\ is_element(G_q, B)
    /\ is_element(G_r, h)
    /\ is_element(G_r, y)
    /\ is_element(G_r, A)

ddl_hash_input(g, h, y, A, B, t_g, t_h) ==
    hash_update(<<g, h, y, A, B>> \o t_g \o t_h)

\* lines 329-336
ddl_commit_g(G_q, G_r, g, y, w) ==
    [i \in 1 .. bits |-> powmod(G_q, g, powmod(G_r, y, w[i]))]

ddl_commit_h(G_r, h, w) == [i \in 1 .. bits |-> powmod(G_r, h, w[i])]

\* lines 338-345
proof_dl_equal_ddl_plus(G_q, G_r, g, h, y, A, B, x, w, digest) ==
    LET c == hashfunc_bits(digest)
    IN  [c |-> c,
         r |-> [i \in 1 .. bits |-> (w[i] + c[i] * x) % order(G_r)]]

proof_dl_equal_ddl(G_q, G_r, g, h, y, A, B, x, w, digest) ==
    LET c == hashfunc_bits(digest)
    IN  [c |-> c,
         r |-> [i \in 1 .. bits |-> (w[i] - c[i] * x) % order(G_r)]]

\* lines 376-380; zip stops at the shorter list
ddl_recompute_g(prf, G_q, G_r, g, y, B) ==
    [i \in 1 .. Min(Len(prf.r), Len(prf.c)) |->
        powmod(G_q, IF prf.c[i] # 0 THEN B ELSE g, powmod(G_r, y, prf.r[i]))]

ddl_recompute_h(prf, G_r, h, A) ==
    [i \in 1 .. Min(Len(prf.r), Len(prf.c)) |->
        (powmod(G_r, h, prf.r[i]) * powmod(G_r, A, prf.c[i])) % G_r.p]

\* line 384
ddl_accept_first_bit(c, c_new) == c[1] = c_new[1]

ddl_accept(c, c_new) == c = c_new

\* lines 382-384
verify_dl_equal_ddl(prf, G_q, G_r, g, h, y, A, B, digest) ==
    ddl_accept(prf.c, hashfunc_bits(digest))

(***************************************************************************)
(* The calls: the honest public values A = h^x, B = g^(y^x), and two calls *)
(* that fail an assert (g outside the outer group, groups not nested).     *)
(***************************************************************************)
DdlCall(N, g, h, y, x) ==
    [fn |-> "dl_equal_ddl", G_q |-> N.G_q, G_r |-> N.G_r,
     g |-> g, h |-> h, y |-> y, x |-> x,
     A |-> powmod(N.G_r, h, x),
     B |-> powmod(N.G_q, g, powmod(N.G_r, y, x))]

\* The secret x is 0 or 1 and an element is 1 or the group's generator; a
\* nonce is 0, 1 or 2, below the inner order.
DdlSecrets(G) == {0, 1}

DdlElements(G) == {1, G.g}

DdlNonces(G) == { w \in {0, 1, 2} : w < order(G) }

DdlCalls ==
    UNION { { DdlCall(N, g, h, y, x) :
                 g \in DdlElements(N.G_q), h \in DdlElements(N.G_r),
                 y \in DdlElements(N.G_r), x \in DdlSecrets(N.G_r) } :
            N \in NestedGroups }

DdlBadCalls ==
    UNION { { DdlCall(N, N.G_q.p - 1, N.G_r.g, N.G_r.g, 1),
              DdlCall([G_q |-> N.G_q, G_r |-> N.G_q], N.G_q.g, N.G_q.g, N.G_q.g, 1) } :
            N \in NestedGroups }

InitDdl ==
    /\ pc = "start"
    /\ call \in DdlCalls \cup DdlBadCalls
    /\ rnd = <<>>
    /\ proof = <<>>
    /\ oracle = {}
    /\ vcall = <<>>
    /\ ret = FALSE
    /\ raised = ""

CallAsserts ==
    ddl_asserts(call.G_q, call.G_r, call.g, call.h, call.y, call.A, call.B)

Call_proof_dl_equal_ddl_raises ==
    /\ pc = "start"
    /\ ~ CallAsserts
    /\ pc' = "raised"
    /\ raised' = "AssertionError"
    /\ UNCHANGED <<call, rnd, proof, oracle, vcall, ret>>

Call_proof_dl_equal_ddl ==
    /\ pc = "start"
    /\ CallAsserts
    /\ \E w \in [1 .. bits -> DdlNonces(call.G_r)],
          d \in BitDigests :
         LET t_g == ddl_commit_g(call.G_q, call.G_r, call.g, call.y, w)
             t_h == ddl_commit_h(call.G_r, call.h, w)
             bytes == ddl_hash_input(call.g, call.h, call.y, call.A, call.B, t_g, t_h)
         IN  /\ Sha256(bytes, d)
             /\ oracle' = oracle \cup {<<bytes, d>>}
             /\ rnd' = [w |-> w, digest |-> d]
             /\ proof' = proof_dl_equal_ddl(call.G_q, call.G_r, call.g, call.h,
                                            call.y, call.A, call.B, call.x, w, d)
             /\ pc' = "proved"
             /\ UNCHANGED <<call, vcall, ret, raised>>

\* a transcript that no prover made, with the responses 0 or 1
Forge_dl_equal_ddl ==
    /\ pc = "start"
    /\ CallAsserts
    /\ \E c \in [1 .. bits -> {0, 1}], r \in [1 .. bits -> {0, 1}] :
         proof' = [c |-> c, r |-> r]
    /\ pc' = "forged"
    /\ UNCHANGED <<call, rnd, oracle, vcall, ret, raised>>

\* verify_dl_equal_ddl run on the transcript prf
RunVerifyDdl(prf, flip) ==
    \E d \in BitDigests :
        LET t_g == ddl_recompute_g(prf, call.G_q, call.G_r, call.g, call.y, call.B)
            t_h == ddl_recompute_h(prf, call.G_r, call.h, call.A)
            bytes == ddl_hash_input(call.g, call.h, call.y, call.A, call.B, t_g, t_h)
        IN  /\ Sha256(bytes, d)
            /\ oracle' = oracle \cup {<<bytes, d>>}
            /\ ret' = verify_dl_equal_ddl(prf, call.G_q, call.G_r, call.g, call.h,
                                          call.y, call.A, call.B, d)
            /\ vcall' = [proof |-> prf, flip |-> flip, bytes |-> bytes, digest |-> d]
            /\ UNCHANGED <<call, rnd, proof, raised>>

Call_verify_dl_equal_ddl ==
    /\ pc \in {"proved", "forged"}
    /\ RunVerifyDdl(proof, "none")
    /\ pc' = IF pc = "proved" THEN "verified" ELSE "verified forged"

\* the integer v with its bit k flipped
FlipBit(v, k) == IF (v \div Pow2(k)) % 2 = 1 THEN v - Pow2(k) ELSE v + Pow2(k)

\* an accepted transcript is verified again with one challenge bit flipped
Call_verify_flipped_challenge ==
    /\ pc \in {"verified", "verified forged"} /\ ret = TRUE
    /\ \E i \in 1 .. bits :
         RunVerifyDdl([proof EXCEPT !.c[i] = 1 - @], "challenge")
    /\ pc' = "reverified"

\* ... or with one of the two lowest bits of one response flipped
Call_verify_flipped_response ==
    /\ pc \in {"verified", "verified forged"} /\ ret = TRUE
    /\ \E i \in 1 .. bits, k \in {0, 1} :
         RunVerifyDdl([proof EXCEPT !.r[i] = FlipBit(@, k)], "response")
    /\ pc' = "reverified"

NextDdl ==
    \/ Call_proof_dl_equal_ddl_raises
    \/ Call_proof_dl_equal_ddl
    \/ Forge_dl_equal_ddl
    \/ Call_verify_dl_equal_ddl
    \/ Call_verify_flipped_challenge
    \/ Call_verify_flipped_response

SpecDdl == InitDdl /\ [][NextDdl]_vars

(***************************************************************************)
(* C3: double-discrete-log completeness.  For nested groups, valid g, B,   *)
(* h, y, A and a secret x with A = h^x and B = g^(y^x), every choice of    *)
(* the nonces and every digest, verify_dl_equal_ddl accepts the transcript *)
(* of proof_dl_equal_ddl.                                                  *)
(***************************************************************************)
DdlCompleteness == pc = "verified" => ret = TRUE

DdlCompletenessWitness ==
    /\ pc = "verified"
    /\ call.x # 0 /\ call.h # 1 /\ call.y # 1 /\ call.g # 1
    /\ proof.c[1] = 1 /\ proof.c[2] = 0
    /\ proof.r[1] # rnd.w[1]
    /\ ret = TRUE

(***************************************************************************)
(* C10: bit-exactness.  As stated: an accepted transcript with one bit of  *)
(* one response flipped, or one challenge bit flipped, is rejected.        *)
(***************************************************************************)
FlippedRejected == pc = "reverified" => ret = FALSE

(***************************************************************************)
(* C10 as amended: the verifier hashes the commitments it recomputes.  A   *)
(* flipped challenge bit is rejected unless the recomputed hash input is a *)
(* new one that SHA-256 maps to the flipped challenge bits.  A flipped     *)
(* response bit is accepted when the recomputed hash input is unchanged,   *)
(* which is the case whenever h = y = 1; when the input changes, the       *)
(* transcript is rejected unless SHA-256 maps the new input to the         *)
(* transcript's challenge bits.                                            *)
(***************************************************************************)
OriginalBytes ==
    ddl_hash_input(call.g, call.h, call.y, call.A, call.B,
                   ddl_recompute_g(proof, call.G_q, call.G_r, call.g, call.y, call.B),
                   ddl_recompute_h(proof, call.G_r, call.h, call.A))

FlippedRejectedUnlessHashAgrees ==
    pc = "reverified" =>
        /\ ret = TRUE <=>
              \/ vcall.flip = "response" /\ vcall.bytes = OriginalBytes
              \/ /\ vcall.bytes # OriginalBytes
                 /\ hashfunc_bits(vcall.digest) = vcall.proof.c
        /\ (vcall.flip = "response" /\ call.h = 1 /\ call.y = 1) => ret = TRUE

\* ... reached by a flipped response bit that changes the hash input
FlippedWitness ==
    /\ pc = "reverified" /\ vcall.flip = "response"
    /\ call.h # 1 /\ call.y # 1
    /\ vcall.bytes # OriginalBytes
    /\ ret = FALSE

====
